---- MODULE Spec2Model ----
(***************************************************************************)
(* Model of the PDF Generator App (app.py): the markdown table parser,     *)
(* the column cleanup, the content renderer with its page-break rule, and  *)
(* the /generate-pdf request handler with its storage calls.               *)
(*                                                                         *)
(* A Python str is modelled as a sequence of one-character strings, so     *)
(* that strip() and split() are computed, not assumed.                     *)
(***************************************************************************)
EXTENDS Naturals, Integers, Sequences, FiniteSets, TLC

VARIABLES
    \* parse_markdown_table applied to one markup
    markdown, parsed, pstage,
    \* clean_table_data applied to one grid, and to its own result
    tdata, cleaned, recleaned, cstage,
    \* one /generate-pdf request
    pc,          \* position in the request's handling
    api_key,     \* the X-API-Key header received
    response,    \* the HTTP response, once there is one
    error,       \* the exception that ended the handler, "" if none
    pdf,         \* the StyledPDF: built, page, y, placed, fit_tests
    added,       \* the add_section calls made, in order
    sec,         \* index of the next section to add
    content,     \* body of the section being rendered
    lines, li, buffer, in_table,   \* render_content's locals
    emitted,     \* the flushes render_content made for this body, in order
    tmpfiles,    \* temporary table images on disk
    next_tmp,    \* names NamedTemporaryFile has handed out
    pdf_output,  \* whether pdf.output() produced the document bytes
    object_name, \* the storage key generated for this request
    cos          \* the storage calls made, in order

parseVars == <<markdown, parsed, pstage>>
cleanVars == <<tdata, cleaned, recleaned, cstage>>
contentVars == <<content, lines, li, buffer, in_table, emitted>>
fileVars == <<tmpfiles, next_tmp>>
storeVars == <<pdf_output, object_name, cos>>
flowVars ==
    <<pc, api_key, response, error, pdf, added, sec, contentVars, fileVars,
      storeVars>>
vars == <<parseVars, cleanVars, flowVars>>

----------------------------------------------------------------------------
\* Bounds of the model.

\* Longest markup enumerated exhaustively for the parser.
MaxMarkdownLen == 6
\* Largest grid enumerated for the column cleanup.
MaxRows == 2
MaxCols == 2
\* Longest section body enumerated exhaustively for the content renderer.
MaxContentLen == 4

----------------------------------------------------------------------------
\* Python str primitives.

NL == "\n"
PIPE == "|"
DASH == "-"
SP == " "

\* str.strip() with no argument removes whitespace; of the characters the
\* model draws, the space and the line break are whitespace.
IsSpace(c) == c \in {SP, NL}

RECURSIVE LStrip(_)
LStrip(s) ==
    IF s = <<>> THEN s
    ELSE IF IsSpace(Head(s)) THEN LStrip(Tail(s)) ELSE s

RECURSIVE RStrip(_)
RStrip(s) ==
    IF s = <<>> THEN s
    ELSE IF IsSpace(s[Len(s)]) THEN RStrip(SubSeq(s, 1, Len(s) - 1)) ELSE s

Strip(s) == RStrip(LStrip(s))

\* str.split(sep) for a one-character sep: k separators give k+1 pieces,
\* the empty string gives one empty piece.
RECURSIVE Split(_, _)
Split(s, sep) ==
    IF \A i \in 1..Len(s) : s[i] # sep THEN <<s>>
    ELSE LET i == CHOOSE k \in 1..Len(s) :
                     s[k] = sep /\ \A j \in 1..(k - 1) : s[j] # sep
         IN  <<SubSeq(s, 1, i - 1)>> \o Split(SubSeq(s, i + 1, Len(s)), sep)

\* sep.join(parts)
RECURSIVE Join(_, _)
Join(parts, sep) ==
    IF parts = <<>> THEN <<>>
    ELSE IF Len(parts) = 1 THEN parts[1]
    ELSE parts[1] \o <<sep>> \o Join(Tail(parts), sep)

\* [x.strip() for x in seq]
StripAll(seq) == [i \in 1..Len(seq) |-> Strip(seq[i])]

\* "|" in line
HasPipe(line) == \E i \in 1..Len(line) : line[i] = PIPE

Max(a, b) == IF a >= b THEN a ELSE b

\* All strings of at most n characters over an alphabet.
AllStrings(alphabet, n) == UNION {[1..k -> alphabet] : k \in 0..n}

----------------------------------------------------------------------------
\* parse_markdown_table

\* rows = [row.strip() for row in markdown.strip().split("\n") if row.strip()]
NonBlank(row) == Strip(row) # <<>>

RECURSIVE NonBlankOnly(_)
NonBlankOnly(rows) ==
    IF rows = <<>> THEN <<>>
    ELSE IF NonBlank(Head(rows)) THEN <<Head(rows)>> \o NonBlankOnly(Tail(rows))
    ELSE NonBlankOnly(Tail(rows))

TableRows(md) == StripAll(NonBlankOnly(Split(Strip(md), NL)))

\* cell == "" or re.match(r"^-+$", cell)
SeparatorCellOkAny(cell) == TRUE
SeparatorCellOk(cell) ==
    cell = <<>> \/ \A i \in 1..Len(cell) : cell[i] = DASH

\* all(... for cell in separator), separator cells trimmed first
SeparatorOk(row) ==
    LET separator == StripAll(Split(row, PIPE))
    IN  \A i \in 1..Len(separator) : SeparatorCellOk(separator[i])

\* max(len(header), *(len(row) for row in data)); data is never empty here
RECURSIVE MaxLen(_)
MaxLen(rowsOfCells) ==
    IF rowsOfCells = <<>> THEN 0
    ELSE Max(Len(Head(rowsOfCells)), MaxLen(Tail(rowsOfCells)))

MaxColsHeaderOnly(header, cells) == Len(header)
MaxColsOf(header, cells) == Max(Len(header), MaxLen(cells))

\* [cell.strip() for cell in row] + [""] * (max_cols - len(row));
\* a list times a non-positive number is the empty list
PadRow(row, max_cols) ==
    StripAll(row) \o
    [i \in 1..(IF max_cols > Len(row) THEN max_cols - Len(row) ELSE 0) |-> <<>>]

\* The result of a call: the grid returned, or the exception raised.
Raised(kind) == [ok |-> FALSE, err |-> kind, grid |-> <<>>]
Returned(grid) == [ok |-> TRUE, err |-> "", grid |-> grid]

parse_markdown_table(md) ==
    LET rows == TableRows(md)
    IN  IF Len(rows) < 3 THEN Raised("ValueError: Insufficient rows")
        ELSE IF ~SeparatorOk(rows[2]) THEN Raised("ValueError: Separator row")
        ELSE LET header == Split(rows[1], PIPE)
                 cells == [i \in 1..(Len(rows) - 2) |-> Split(rows[i + 2], PIPE)]
                 max_cols == MaxColsOf(header, cells)
             IN  Returned(<<PadRow(header, max_cols)>> \o
                          [i \in 1..Len(cells) |-> PadRow(cells[i], max_cols)])

----------------------------------------------------------------------------
\* StyledPDF.clean_table_data

\* zip(*data) stops at the shortest row
RECURSIVE MinLen(_)
MinLen(grid) ==
    IF Len(grid) = 1 THEN Len(grid[1])
    ELSE LET m == MinLen(Tail(grid))
         IN  IF Len(grid[1]) <= m THEN Len(grid[1]) ELSE m

\* transposed = list(zip(*data)): one tuple per column
Transpose(grid) ==
    IF grid = <<>> THEN <<>>
    ELSE [c \in 1..MinLen(grid) |-> [r \in 1..Len(grid) |-> grid[r][c]]]

\* any(cell.strip() for cell in col)
KeepColumnIfAllFilled(col) == \A r \in 1..Len(col) : Strip(col[r]) # <<>>
KeepColumn(col) == \E r \in 1..Len(col) : Strip(col[r]) # <<>>

\* cleaned = [col for col in transposed if any(...)]
RECURSIVE KeptColumns(_)
KeptColumns(cols) ==
    IF cols = <<>> THEN <<>>
    ELSE IF KeepColumn(Head(cols)) THEN <<Head(cols)>> \o KeptColumns(Tail(cols))
    ELSE KeptColumns(Tail(cols))

clean_table_data(grid) ==
    IF grid = <<>> THEN grid
    ELSE LET kept == KeptColumns(Transpose(grid))
         IN  IF kept # <<>> THEN Transpose(kept) ELSE grid

----------------------------------------------------------------------------
\* The parser applied to one markup.

MarkupAlphabet == {"a", DASH, PIPE, SP, NL}

\* "A|B\n--|--\n1|\n|2", the ragged table of the documentation
RaggedExample ==
    <<"A", PIPE, "B", NL, DASH, DASH, PIPE, DASH, DASH, NL,
      "1", PIPE, NL, PIPE, "2">>

\* " a | b \n|---|\n x|y|z \n\n 1 ": a header narrower than a data row
WideRowExample ==
    <<SP, "a", SP, PIPE, SP, "b", SP, NL, PIPE, DASH, DASH, DASH, PIPE, NL,
      SP, "x", PIPE, "y", PIPE, "z", SP, NL, NL, SP, "1", SP>>

\* "a|b\n-|:-\n1|2": an alignment colon in the separator row
ColonExample ==
    <<"a", PIPE, "b", NL, DASH, PIPE, ":", DASH, NL, "1", PIPE, "2">>

Markups ==
    AllStrings(MarkupAlphabet, MaxMarkdownLen)
        \cup {RaggedExample, WideRowExample, ColonExample}

NoResult == [ok |-> FALSE, err |-> "not called", grid |-> <<>>]

ParseInputs ==
    /\ markdown \in Markups
    /\ parsed = NoResult
    /\ pstage = "input"

Parse ==
    /\ pstage = "input"
    /\ parsed' = parse_markdown_table(markdown)
    /\ pstage' = "parsed"
    /\ UNCHANGED markdown

----------------------------------------------------------------------------
\* The column cleanup applied to one grid, then to its own result.

CellValues == {<<>>, <<SP>>, <<"a">>}

Grids ==
    UNION {[1..r -> [1..c -> CellValues]] : r \in 1..MaxRows, c \in 1..MaxCols}

CleanInputs ==
    /\ tdata \in Grids
    /\ cleaned = <<>>
    /\ recleaned = <<>>
    /\ cstage = "input"

Clean ==
    /\ cstage = "input"
    /\ cleaned' = clean_table_data(tdata)
    /\ cstage' = "cleaned"
    /\ UNCHANGED <<tdata, recleaned>>

CleanAgain ==
    /\ cstage = "cleaned"
    /\ recleaned' = clean_table_data(cleaned)
    /\ cstage' = "recleaned"
    /\ UNCHANGED <<tdata, cleaned>>

ParseIdle == markdown = <<>> /\ parsed = NoResult /\ pstage = "idle"
CleanIdle == tdata = <<>> /\ cleaned = <<>> /\ recleaned = <<>> /\ cstage = "idle"

----------------------------------------------------------------------------
\* Page geometry of the FPDF document (millimetres). StyledPDF() takes
\* FPDF's defaults: A4 portrait, 10 mm top margin, automatic page break
\* 20 mm above the bottom edge.

PageHeight == 297
TopMargin == 10
AutoBreakMargin == 20
\* render_table's own reserve below the image: self.h - 20
TableBottomMargin == 20
\* header(): set_y(25), a title cell 10 high, ln(10)
HeaderTitleY == 25
HeaderTitleH == 10
HeaderGap == 10
\* add_section(): title cell 10 high, ln(3); ln(5) after the body
SectionTitleH == 10
SectionTitleGap == 3
SectionGap == 5
\* render_content(): multi_cell lines 8 high; ln(5) after prose, ln(10)
\* after a table; render_table(): ln(img_height + 5)
TextLineH == 8
ProseGap == 5
TableGap == 10
ImageGap == 5

NoPlacement == [drawn |-> FALSE, y0 |-> 0, h |-> 0, at |-> 0, page0 |-> 0, page |-> 0]

NoPdf == [built |-> FALSE, page |-> 0, y |-> 0, placed |-> NoPlacement, fit_tests |-> 0]

\* FPDF.ln(h)
Ln(d, h) == [d EXCEPT !.y = @ + h]

\* StyledPDF.header(): leaves the cursor below the title, wherever it was
headerWithoutTitle(d) == d
header(d) == [d EXCEPT !.y = HeaderTitleY + HeaderTitleH + HeaderGap]

\* FPDF.add_page(): a new page with the cursor at the top margin, then header()
add_page(d) == header([d EXCEPT !.page = @ + 1, !.y = TopMargin])

\* FPDF.cell(0, h, ..., ln=1): breaks the page first when the cell would
\* cross the automatic break line, then moves down by h
Cell(d, h) ==
    Ln(IF d.y + h > PageHeight - AutoBreakMargin THEN add_page(d) ELSE d, h)

\* FPDF.multi_cell(0, 8, text): one cell per line of the text. The lines of
\* the model's bodies are far shorter than the page is wide, so none wraps:
\* the text makes as many cells as it has lines.
RECURSIVE Cells(_, _)
Cells(d, n) == IF n = 0 THEN d ELSE Cell(Cells(d, n - 1), TextLineH)

MultiCell(d, text) == Cells(d, Len(Split(text, NL)))

\* if self.get_y() + img_height > self.h - 20
NeedsNewPageInclusive(y, h) == y + h >= PageHeight - TableBottomMargin
NeedsNewPage(y, h) == y + h > PageHeight - TableBottomMargin

----------------------------------------------------------------------------
\* StyledPDF.render_table

\* How the calls render_table makes into matplotlib, PIL and FPDF end.
Fates == {"ok", "raster_fails", "measure_fails", "place_fails"}

\* d: the document, fs: the temporary files, md: the table block,
\* fate: how the library calls end, h: the image height measured.
\* except Exception: log and raise (the parser's ValueError passes through)
OnParseFailureSkipTable(d, fs) ==
    [err |-> "", pdf |-> d, fs |-> fs, grid |-> <<>>]
OnParseFailure(d, fs) ==
    [err |-> "MalformedTable", pdf |-> d, fs |-> fs, grid |-> <<>>]

render_table(d, fs, md, fate, h) ==
    LET data == parse_markdown_table(md)
        grid == clean_table_data(data.grid)
        filename == fs.next + 1
        created == [files |-> fs.files \cup {filename}, next |-> fs.next + 1]
        paged == IF NeedsNewPage(d.y, h) THEN add_page(d) ELSE d
        checked == [paged EXCEPT !.fit_tests = @ + 1]
        drawn == [checked EXCEPT !.placed =
                     [drawn |-> TRUE, y0 |-> d.y, h |-> h, at |-> paged.y,
                      page0 |-> d.page, page |-> paged.page]]
    IN  IF ~data.ok THEN OnParseFailure(d, fs)
        ELSE IF fate = "raster_fails"
            THEN [err |-> "raster", pdf |-> d, fs |-> created, grid |-> grid]
        ELSE IF fate = "measure_fails"
            THEN [err |-> "measure", pdf |-> d, fs |-> created, grid |-> grid]
        ELSE IF fate = "place_fails"
            THEN [err |-> "place", pdf |-> checked, fs |-> created, grid |-> grid]
        ELSE [err |-> "",
              pdf |-> Ln(drawn, h + ImageGap),
              fs |-> [created EXCEPT !.files = @ \ {filename}],
              grid |-> grid]

----------------------------------------------------------------------------
\* The request: get_api_key, then generate_pdf.

\* API_KEY = os.getenv("API_KEY", "default_key")
API_KEY == "default_key"

\* The header as FastAPI hands it to get_api_key: None when it is missing.
Keys == {API_KEY, "wrong_key", "None"}

\* fixed_content: one section, prose without a table
FixedBody == <<"a">>

\* disclaimer_text: six paragraphs of prose, with the line breaks of the
\* source ("\n\n" after the first and before the last), none with a "|"
DisclaimerBody ==
    <<"d", NL, NL, "d", NL, "d", NL, "d", NL, "d", NL, NL, "d">>

\* "Summary line.\n\n| A | B |\n|---|---|\n| 1 | 2 |\n\nMore text."
InterleavedExample ==
    <<"S", ".", NL, NL,
      PIPE, SP, "A", SP, PIPE, SP, "B", SP, PIPE, NL,
      PIPE, DASH, DASH, DASH, PIPE, DASH, DASH, DASH, PIPE, NL,
      PIPE, SP, "1", SP, PIPE, SP, "2", SP, PIPE, NL, NL,
      "M", ".">>

\* "t\n a|b\n-|-\n1|2 ": a body that ends inside a table
TableLastExample ==
    <<"t", NL, SP, "a", PIPE, "b", NL, DASH, PIPE, DASH, NL, "1", PIPE, "2", SP>>

\* "x|y\nz": one line with a "|" in prose: a table block of one row
LonePipeExample == <<"x", PIPE, "y", NL, "z">>

\* Prose, a table, prose, and a second table that ends the body.
TwoTablesExample == InterleavedExample \o <<NL>> \o TableLastExample

\* The values a field of GeneratePDFRequest takes in the model: prose
\* alone, prose with well-formed tables, prose with a malformed one.
UserBodies == {<<"a">>, TwoTablesExample, LonePipeExample}

\* The add_section calls of generate_pdf, in source order: fixed_content,
\* the fields of GeneratePDFRequest in declared order under their
\* title-cased names, the disclaimer.
UserSections ==
    <<[title |-> "Executive Summary", is_disclaimer |-> FALSE, bodies |-> UserBodies],
      [title |-> "Portfolio Summary", is_disclaimer |-> FALSE, bodies |-> UserBodies],
      [title |-> "Tax Loss Harvesting Analysis", is_disclaimer |-> FALSE, bodies |-> UserBodies],
      [title |-> "Reinvestment Strategy", is_disclaimer |-> FALSE, bodies |-> UserBodies],
      [title |-> "Portfolio Outlook", is_disclaimer |-> FALSE, bodies |-> UserBodies],
      [title |-> "Actionable Next Steps", is_disclaimer |-> FALSE, bodies |-> UserBodies],
      [title |-> "Irs Compliance Warning", is_disclaimer |-> FALSE, bodies |-> UserBodies]>>

SectionsDisclaimerFirst ==
    <<[title |-> "Disclaimer", is_disclaimer |-> TRUE, bodies |-> {DisclaimerBody}],
      [title |-> "About This Report", is_disclaimer |-> FALSE, bodies |-> {FixedBody}]>>
        \o UserSections
Sections ==
    <<[title |-> "About This Report", is_disclaimer |-> FALSE, bodies |-> {FixedBody}]>>
        \o UserSections \o
    <<[title |-> "Disclaimer", is_disclaimer |-> TRUE, bodies |-> {DisclaimerBody}]>>

\* object_name = f"Portfolio_Optimization_Report_{uuid.uuid4()}.pdf"
ObjectNames ==
    {"Portfolio_Optimization_Report_u1.pdf", "Portfolio_Optimization_Report_u2.pdf"}

NoResponse == [status |-> 0, message |-> "", file_url |-> ""]

\* raise HTTPException(status_code=401, ...)
Unauthorized == [status |-> 401, message |-> "Invalid or missing API Key", file_url |-> ""]

\* except Exception as e: raise HTTPException(status_code=500, ...)
ServerError == [status |-> 500, message |-> "Error generating PDF", file_url |-> ""]

\* return {"message": ..., "file_url": presigned_url}
Success(key) ==
    [status |-> 200, message |-> "PDF generated successfully", file_url |-> key]

FlowInit ==
    /\ pc = "request"
    /\ api_key \in Keys
    /\ response = NoResponse
    /\ error = ""
    /\ pdf = NoPdf
    /\ added = <<>>
    /\ sec = 1
    /\ content = <<>>
    /\ lines = <<>>
    /\ li = 1
    /\ buffer = <<>>
    /\ in_table = FALSE
    /\ emitted = <<>>
    /\ tmpfiles = {}
    /\ next_tmp = 0
    /\ pdf_output = FALSE
    /\ object_name = ""
    /\ cos = <<>>

\* if api_key != API_KEY
KeyAcceptedAlways(key) == TRUE
KeyAccepted(key) == key = API_KEY

\* get_api_key: the dependency FastAPI resolves before it calls generate_pdf
GetApiKey ==
    /\ pc = "request"
    /\ IF KeyAccepted(api_key)
          THEN pc' = "handler" /\ UNCHANGED response
          ELSE pc' = "done" /\ response' = Unauthorized
    /\ UNCHANGED <<api_key, error, pdf, added, sec, contentVars, fileVars, storeVars>>

\* pdf = StyledPDF(); pdf.add_page(). The constructor raises when a font
\* file is missing.
BeginDocument ==
    /\ pc = "handler"
    /\ \E fonts_ok \in BOOLEAN :
          IF fonts_ok
             THEN /\ pdf' = add_page([NoPdf EXCEPT !.built = TRUE])
                  /\ pc' = "sections"
                  /\ UNCHANGED <<response, error>>
             ELSE /\ pc' = "done"
                  /\ response' = ServerError
                  /\ error' = "fonts"
                  /\ UNCHANGED pdf
    /\ UNCHANGED <<api_key, added, sec, contentVars, fileVars, storeVars>>

\* add_section up to its call of render_content: the title cell and ln(3)
AddSection ==
    /\ pc = "sections"
    /\ sec <= Len(Sections)
    /\ \E body \in Sections[sec].bodies : content' = body
    /\ added' = Append(added, [title |-> Sections[sec].title,
                               is_disclaimer |-> Sections[sec].is_disclaimer])
    /\ pdf' = Ln(Cell(pdf, SectionTitleH), SectionTitleGap)
    /\ pc' = "content"
    /\ UNCHANGED <<api_key, response, error, sec, lines, li, buffer, in_table,
                   emitted, fileVars, storeVars>>

\* render_content: lines = content.strip().split("\n"); buffer = []; in_table = False
RenderContentBegin ==
    /\ pc = "content"
    /\ lines' = Split(Strip(content), NL)
    /\ li' = 1
    /\ buffer' = <<>>
    /\ in_table' = FALSE
    /\ emitted' = <<>>
    /\ pc' = "scan"
    /\ UNCHANGED <<api_key, response, error, pdf, added, sec, content, fileVars,
                   storeVars>>

\* The heights an image is measured at: one that fits below the header of
\* a fresh page, one that fits on no page, and the tallest that still fits
\* below the cursor.
SmallImage == 40
TallImage == 250
ImageHeights(y) ==
    {SmallImage, TallImage} \cup
    {h \in {PageHeight - TableBottomMargin - y} : h > 0}

ProseBlock(buf) == [kind |-> "prose", text |-> Strip(Join(buf, NL)), grid |-> <<>>]
TableBlock(buf, grid) == [kind |-> "table", text |-> Join(buf, NL), grid |-> grid]

\* buffer = [] after a flush
BufferKept(buf) == buf
BufferAfterFlush(buf) == <<>>

\* The exception leaves render_content, add_section and the handler's try:
\* except Exception -> HTTPException(500)
Abort(err) ==
    /\ pc' = "done"
    /\ response' = ServerError
    /\ error' = err

\* self.multi_cell(0, 8, "\n".join(buffer).strip()); self.ln(5)
FlushProse ==
    /\ pdf' = Ln(MultiCell(pdf, Strip(Join(buffer, NL))), ProseGap)
    /\ emitted' = Append(emitted, ProseBlock(buffer))
    /\ UNCHANGED fileVars

\* One turn of render_content's loop over the lines.
ScanLine ==
    /\ pc = "scan"
    /\ li <= Len(lines)
    /\ LET line == lines[li]
       IN  IF HasPipe(line)
           THEN /\ IF ~in_table /\ buffer # <<>>
                      THEN /\ FlushProse
                           /\ buffer' = Append(BufferAfterFlush(buffer), Strip(line))
                      ELSE /\ buffer' = Append(buffer, Strip(line))
                           /\ UNCHANGED <<pdf, emitted, fileVars>>
                /\ in_table' = TRUE
                /\ li' = li + 1
                /\ UNCHANGED <<pc, response, error>>
           ELSE IF in_table
           THEN \E fate \in Fates, h \in ImageHeights(pdf.y) :
                   LET r == render_table(pdf, [files |-> tmpfiles, next |-> next_tmp],
                                         Join(buffer, NL), fate, h)
                   IN  /\ emitted' = Append(emitted, TableBlock(buffer, r.grid))
                       /\ tmpfiles' = r.fs.files
                       /\ next_tmp' = r.fs.next
                       /\ IF r.err # ""
                             THEN /\ Abort(r.err)
                                  /\ pdf' = r.pdf
                                  /\ UNCHANGED <<buffer, in_table, li>>
                             ELSE /\ pdf' = Ln(r.pdf, TableGap)
                                  /\ buffer' = Append(BufferAfterFlush(buffer), line)
                                  /\ in_table' = FALSE
                                  /\ li' = li + 1
                                  /\ UNCHANGED <<pc, response, error>>
           ELSE /\ buffer' = Append(buffer, line)
                /\ li' = li + 1
                /\ UNCHANGED <<pc, response, error, pdf, emitted, in_table, fileVars>>
    /\ UNCHANGED <<api_key, added, sec, content, lines, storeVars>>

\* After the loop: flush what the buffer still holds.
EndContent ==
    /\ pc = "scan"
    /\ li > Len(lines)
    /\ IF in_table
       THEN \E fate \in Fates, h \in ImageHeights(pdf.y) :
               LET r == render_table(pdf, [files |-> tmpfiles, next |-> next_tmp],
                                     Join(buffer, NL), fate, h)
               IN  /\ emitted' = Append(emitted, TableBlock(buffer, r.grid))
                   /\ tmpfiles' = r.fs.files
                   /\ next_tmp' = r.fs.next
                   /\ IF r.err # ""
                         THEN Abort(r.err) /\ pdf' = r.pdf
                         ELSE /\ pdf' = Ln(r.pdf, TableGap)
                              /\ pc' = "section_end"
                              /\ UNCHANGED <<response, error>>
       ELSE IF buffer # <<>>
       THEN /\ FlushProse
            /\ pc' = "section_end"
            /\ UNCHANGED <<response, error>>
       ELSE /\ pc' = "section_end"
            /\ UNCHANGED <<response, error, pdf, emitted, fileVars>>
    /\ UNCHANGED <<api_key, added, sec, content, lines, li, buffer, in_table,
                   storeVars>>

\* add_section after render_content returned: self.ln(5)
EndSection ==
    /\ pc = "section_end"
    /\ pdf' = Ln(pdf, SectionGap)
    /\ sec' = sec + 1
    /\ pc' = "sections"
    /\ UNCHANGED <<api_key, response, error, added, contentVars, fileVars, storeVars>>

\* pdf.output(dest='S').encode('latin1'); the unique object name
Output ==
    /\ pc = "sections"
    /\ sec > Len(Sections)
    /\ pdf_output' = TRUE
    /\ object_name' \in ObjectNames
    /\ pc' = "put"
    /\ UNCHANGED <<api_key, response, error, pdf, added, sec, contentVars, fileVars, cos>>

\* How a call into the storage client ends: it returns, raises ClientError
\* (caught, re-raised as HTTPException 500) or raises something else; both
\* exceptions reach the handler's except Exception.
StorageOutcomes == {"ok", "ClientError", "OtherError"}

StorageCall(op, outcome) == [op |-> op, key |-> object_name, ok |-> outcome = "ok"]

\* cos.put_object(Bucket, Key=object_name, Body=pdf_output, ...)
PutObject ==
    /\ pc = "put"
    /\ \E outcome \in StorageOutcomes :
          /\ cos' = Append(cos, StorageCall("put_object", outcome))
          /\ IF outcome = "ok"
                THEN pc' = "presign" /\ UNCHANGED <<response, error>>
                ELSE Abort("put_object")
    /\ UNCHANGED <<api_key, pdf, added, sec, contentVars, fileVars, pdf_output,
                   object_name>>

\* cos.generate_presigned_url('get_object', Key=object_name, ExpiresIn=432000)
Presign ==
    /\ pc = "presign"
    /\ \E outcome \in StorageOutcomes :
          /\ cos' = Append(cos, StorageCall("generate_presigned_url", outcome))
          /\ IF outcome = "ok"
                THEN /\ pc' = "done"
                     /\ response' = Success(object_name)
                     /\ UNCHANGED error
                ELSE Abort("generate_presigned_url")
    /\ UNCHANGED <<api_key, pdf, added, sec, contentVars, fileVars, pdf_output,
                   object_name>>

Init == FlowInit /\ ParseIdle /\ CleanIdle

Next ==
    \/ GetApiKey /\ UNCHANGED <<parseVars, cleanVars>>
    \/ BeginDocument /\ UNCHANGED <<parseVars, cleanVars>>
    \/ AddSection /\ UNCHANGED <<parseVars, cleanVars>>
    \/ RenderContentBegin /\ UNCHANGED <<parseVars, cleanVars>>
    \/ ScanLine /\ UNCHANGED <<parseVars, cleanVars>>
    \/ EndContent /\ UNCHANGED <<parseVars, cleanVars>>
    \/ EndSection /\ UNCHANGED <<parseVars, cleanVars>>
    \/ Output /\ UNCHANGED <<parseVars, cleanVars>>
    \/ PutObject /\ UNCHANGED <<parseVars, cleanVars>>
    \/ Presign /\ UNCHANGED <<parseVars, cleanVars>>

Spec == Init /\ [][Next]_vars

----------------------------------------------------------------------------
\* render_content applied to one body: a request that has reached its
\* first section, whose body is any short string or one of the examples.

ContentAlphabet == {"a", DASH, PIPE, SP, NL}

\* "|\n-|\n|\na": the shortest well-formed table block, then prose
ShortTableExample == <<PIPE, NL, DASH, PIPE, NL, PIPE, NL, "a">>

Contents ==
    AllStrings(ContentAlphabet, MaxContentLen)
        \cup UserBodies
        \cup {InterleavedExample, TableLastExample, ShortTableExample, DisclaimerBody}

ContentInit ==
    /\ pc = "content"
    /\ api_key = API_KEY
    /\ response = NoResponse
    /\ error = ""
    /\ pdf = Ln(Cell(add_page([NoPdf EXCEPT !.built = TRUE]), SectionTitleH),
                SectionTitleGap)
    /\ added = <<[title |-> Sections[1].title, is_disclaimer |-> FALSE]>>
    /\ sec = 1
    /\ content \in Contents
    /\ lines = <<>>
    /\ li = 1
    /\ buffer = <<>>
    /\ in_table = FALSE
    /\ emitted = <<>>
    /\ tmpfiles = {}
    /\ next_tmp = 0
    /\ pdf_output = FALSE
    /\ object_name = ""
    /\ cos = <<>>

InitContent == ContentInit /\ ParseIdle /\ CleanIdle

ContentNext ==
    \/ RenderContentBegin /\ UNCHANGED <<parseVars, cleanVars>>
    \/ ScanLine /\ UNCHANGED <<parseVars, cleanVars>>
    \/ EndContent /\ UNCHANGED <<parseVars, cleanVars>>

SpecContent == InitContent /\ [][ContentNext]_vars

----------------------------------------------------------------------------
\* The specifications of the two pure functions.

FlowIdle ==
    /\ pc = "idle"
    /\ api_key = "None"
    /\ response = NoResponse
    /\ error = ""
    /\ pdf = NoPdf
    /\ added = <<>>
    /\ sec = 1
    /\ content = <<>>
    /\ lines = <<>>
    /\ li = 1
    /\ buffer = <<>>
    /\ in_table = FALSE
    /\ emitted = <<>>
    /\ tmpfiles = {}
    /\ next_tmp = 0
    /\ pdf_output = FALSE
    /\ object_name = ""
    /\ cos = <<>>

InitParse == ParseInputs /\ CleanIdle /\ FlowIdle

ParseNext == Parse /\ UNCHANGED <<cleanVars, flowVars>>

SpecParse == InitParse /\ [][ParseNext]_vars

InitClean == CleanInputs /\ ParseIdle /\ FlowIdle

CleanNext ==
    \/ Clean /\ UNCHANGED <<parseVars, flowVars>>
    \/ CleanAgain /\ UNCHANGED <<parseVars, flowVars>>

SpecClean == InitClean /\ [][CleanNext]_vars

----------------------------------------------------------------------------
\* Properties.

\* What the handler has done for the composer and for storage.
ComposerUntouched == ~pdf.built /\ pdf.page = 0 /\ added = <<>> /\ emitted = <<>>
StorageUntouched == cos = <<>> /\ ~pdf_output /\ object_name = ""

\* C1: a request whose X-API-Key header is missing or differs from API_KEY
\* is answered 401, and its handling never builds a StyledPDF, never runs
\* add_section and never calls put_object or generate_presigned_url.
C1_UnauthorizedTouchesNothing ==
    api_key # API_KEY =>
        /\ pc \in {"request", "done"}
        /\ pc = "done" => response = Unauthorized
        /\ ComposerUntouched
        /\ StorageUntouched
        /\ tmpfiles = {}

C1_Witness == api_key = "None" /\ pc = "done" /\ response.status = 401

\* The lines of a markup as written: split at line breaks, blank lines left out.
MarkupLines(md) == NonBlankOnly(Split(md, NL))

\* The cells of a line as written: the pieces between the "|".
InputCells(line) == Split(line, PIPE)

IsDashes(cell) == cell # <<>> /\ \A i \in 1..Len(cell) : cell[i] = DASH

BadSeparatorCell(cell) == Strip(cell) # <<>> /\ ~IsDashes(Strip(cell))

HasBadSeparator(md) ==
    /\ Len(MarkupLines(md)) >= 2
    /\ \E i \in 1..Len(InputCells(MarkupLines(md)[2])) :
          BadSeparatorCell(InputCells(MarkupLines(md)[2])[i])

ValidMarkup(md) == Len(MarkupLines(md)) >= 3 /\ ~HasBadSeparator(md)

\* The header line and the data lines, the separator left out.
ContentLines(md) ==
    LET l == MarkupLines(md)
    IN  <<l[1]>> \o SubSeq(l, 3, Len(l))

WidestRow(md) ==
    LET l == ContentLines(md)
    IN  CHOOSE w \in {Len(InputCells(l[i])) : i \in 1..Len(l)} :
            \A i \in 1..Len(l) : Len(InputCells(l[i])) <= w

\* C2: for a valid markup with a header and n data rows, the grid has n+1
\* rows in input order, each as wide as the widest of them, each cell the
\* trimmed input cell, each missing cell "" on the right; no row is cut.
C2_GridIsPaddedToWidestRow ==
    (pstage = "parsed" /\ ValidMarkup(markdown)) =>
        LET l == ContentLines(markdown)
            g == parsed.grid
        IN  /\ parsed.ok
            /\ Len(g) = Len(MarkupLines(markdown)) - 1
            /\ \A i \in 1..Len(g) :
                  /\ Len(g[i]) = WidestRow(markdown)
                  /\ \A j \in 1..Len(g[i]) :
                        g[i][j] = IF j <= Len(InputCells(l[i]))
                                     THEN Strip(InputCells(l[i])[j])
                                     ELSE <<>>

\* The ragged example: [["A","B"],["1",""],["","2"]].
C2_Witness ==
    /\ pstage = "parsed"
    /\ markdown = RaggedExample
    /\ parsed.ok
    /\ parsed.grid = << <<<<"A">>, <<"B">>>>, <<<<"1">>, <<>>>>, <<<<>>, <<"2">>>> >>

\* C3: the parser raises when fewer than 3 non-blank lines remain, and when
\* the separator row has a cell that is neither empty nor all dashes.
C3_MalformedMarkupRaises ==
    (pstage = "parsed" /\ (Len(MarkupLines(markdown)) < 3 \/ HasBadSeparator(markdown)))
        => (~parsed.ok /\ parsed.grid = <<>>)

\* Three lines, and only the separator is wrong.
C3_Witness ==
    /\ pstage = "parsed"
    /\ Len(MarkupLines(markdown)) >= 3
    /\ HasBadSeparator(markdown)
    /\ ~parsed.ok

IsBlankCell(cell) == \A i \in 1..Len(cell) : cell[i] \in {SP, NL}

BlankColumn(grid, c) == \A r \in 1..Len(grid) : IsBlankCell(grid[r][c])

\* C4: cleaning twice is cleaning once; a grid with no all-blank column comes
\* back unchanged; a grid whose columns are all blank comes back unchanged
\* too, and no result has zero columns.
C4_CleanupIdempotent ==
    cstage = "recleaned" =>
        /\ recleaned = cleaned
        /\ Len(cleaned) = Len(tdata)
        /\ \A r \in 1..Len(cleaned) : Len(cleaned[r]) >= 1
        /\ (\A c \in 1..Len(tdata[1]) : ~BlankColumn(tdata, c)) => cleaned = tdata
        /\ (\A c \in 1..Len(tdata[1]) : BlankColumn(tdata, c)) => cleaned = tdata

\* A blank column was dropped, and cleaning the result changed nothing more.
C4_Witness ==
    /\ cstage = "recleaned"
    /\ Len(cleaned[1]) < Len(tdata[1])
    /\ recleaned = cleaned

\* The maximal runs of same-class lines, in order.
LineKind(line) == IF HasPipe(line) THEN "table" ELSE "prose"

RECURSIVE Runs(_)
Runs(ls) ==
    IF ls = <<>> THEN <<>>
    ELSE LET rest == Runs(Tail(ls))
         IN  IF rest # <<>> /\ rest[1].kind = LineKind(Head(ls))
             THEN <<[kind |-> rest[1].kind, lines |-> <<Head(ls)>> \o rest[1].lines]>>
                      \o Tail(rest)
             ELSE <<[kind |-> LineKind(Head(ls)), lines |-> <<Head(ls)>>]>> \o rest

BodyRuns == Runs(Split(Strip(content), NL))

\* render_content is at work on content, or has ended.
Rendering == pc \in {"scan", "section_end"}
RenderAborted == pc = "done" /\ error \in {"MalformedTable", "raster", "measure", "place"}

\* The text of a run as written, and as the renderer hands it on: table
\* lines trimmed one by one, a prose block trimmed as a whole.
TextAsWritten(run) == Join(run.lines, NL)
TextTrimmed(run) ==
    IF run.kind = "table" THEN Join(StripAll(run.lines), NL)
    ELSE Strip(Join(run.lines, NL))

\* C5 as stated: every run of every body is emitted, in order, with exactly
\* its lines, and the last run is flushed at the end of the input.
C5_Original ==
    (pc = "section_end" \/ RenderAborted) =>
        /\ Len(emitted) = Len(BodyRuns)
        /\ \A i \in 1..Len(emitted) :
              /\ emitted[i].kind = BodyRuns[i].kind
              /\ emitted[i].text = TextAsWritten(BodyRuns[i])

\* C5 as amended: the blocks emitted are the runs of the trimmed body in
\* order, one block per run, none merged; a table block holds its lines
\* trimmed, a prose block its lines trimmed as a whole; every run is emitted
\* when render_content returns, and when a table fails the failing run is the
\* last one emitted.
C5_OrderPreserved ==
    (Rendering \/ RenderAborted) =>
        /\ Len(emitted) <= Len(BodyRuns)
        /\ \A i \in 1..Len(emitted) :
              /\ emitted[i].kind = BodyRuns[i].kind
              /\ emitted[i].text = TextTrimmed(BodyRuns[i])
        /\ pc = "section_end" => Len(emitted) = Len(BodyRuns)
        /\ RenderAborted =>
              /\ emitted # <<>>
              /\ emitted[Len(emitted)].kind = "table"

\* The documented example: prose, the table [["A","B"],["1","2"]], prose.
C5_Witness ==
    /\ pc = "section_end"
    /\ content = InterleavedExample
    /\ Len(emitted) = 3
    /\ emitted[1] = [kind |-> "prose", text |-> <<"S", ".">>, grid |-> <<>>]
    /\ emitted[2].kind = "table"
    /\ emitted[2].grid = << <<<<"A">>, <<"B">>>>, <<<<"1">>, <<"2">>>> >>
    /\ emitted[3] = [kind |-> "prose", text |-> <<"M", ".">>, grid |-> <<>>]

\* The image crossed the line 20 mm above the bottom edge.
Crossed(p) == p.y0 + p.h > PageHeight - 20

\* A step in which render_content flushed a prose block.
ProseFlushed ==
    /\ Len(emitted') = Len(emitted) + 1
    /\ emitted'[Len(emitted')].kind = "prose"

PlacementExact ==
    pdf.placed.drawn =>
        /\ Crossed(pdf.placed) =>
              pdf.placed.page = pdf.placed.page0 + 1
        /\ ~Crossed(pdf.placed) =>
              pdf.placed.page = pdf.placed.page0 /\ pdf.placed.at = pdf.placed.y0

\* C6: an image of height h at cursor y goes to a new page exactly when
\* y + h > page height - 20, and is drawn at y on the current page
\* otherwise; flushing a prose block tests no height.
C6_PageBreakExact ==
    /\ []PlacementExact
    /\ [][ProseFlushed => (pdf'.fit_tests = pdf.fit_tests /\ pdf'.placed = pdf.placed)]_vars

\* An image that reached the line exactly stayed on its page.
C6_Witness ==
    /\ pdf.placed.drawn
    /\ pdf.placed.y0 + pdf.placed.h = PageHeight - 20
    /\ pdf.placed.page = pdf.placed.page0
    /\ pdf.page > 1

\* A table block of the body being rendered that the parser rejects.
BadTableEmitted ==
    \E i \in 1..Len(emitted) :
        emitted[i].kind = "table" /\ ~parse_markdown_table(emitted[i].text).ok

\* C7: once a table block fails (in the parser, the rasteriser, the
\* measuring or the placement) the request is over with a 500: no later
\* section is added, no bytes are produced, nothing is stored.
C7_TableFailureAbortsBuild ==
    (BadTableEmitted \/ error \in {"MalformedTable", "raster", "measure", "place"}) =>
        /\ pc = "done"
        /\ response = ServerError
        /\ Len(added) = sec
        /\ emitted[Len(emitted)].kind = "table"
        /\ StorageUntouched

\* The second user section held the malformed table; six sections waited.
C7_Witness ==
    /\ error = "MalformedTable"
    /\ pc = "done"
    /\ sec = 3
    /\ response.status = 500

\* C8 as stated: no temporary table image is left once render_table has
\* ended, however it ended. (render_table is one step: every state lies
\* between calls.)
C8_NoLeftoverImages == tmpfiles = {}

\* C9 as stated: after the page break the image is drawn at the top margin.
C9_Original ==
    (pdf.placed.drawn /\ pdf.placed.page = pdf.placed.page0 + 1) =>
        pdf.placed.at = TopMargin

\* C9 as amended: after the page break the image is drawn where header()
\* leaves the cursor of the new page: below the title, at 25 + 10 + 10.
C9_DrawnBelowHeader ==
    (pdf.placed.drawn /\ pdf.placed.page = pdf.placed.page0 + 1) =>
        pdf.placed.at = 45

C9_Witness ==
    /\ pdf.placed.drawn
    /\ pdf.placed.page = pdf.placed.page0 + 1
    /\ pdf.placed.y0 + pdf.placed.h > PageHeight - 20

\* The add_section calls of a whole document.
ExpectedTitles ==
    <<"About This Report", "Executive Summary", "Portfolio Summary",
      "Tax Loss Harvesting Analysis", "Reinvestment Strategy", "Portfolio Outlook",
      "Actionable Next Steps", "Irs Compliance Warning", "Disclaimer">>

ExpectedCalls ==
    [i \in 1..9 |-> [title |-> ExpectedTitles[i], is_disclaimer |-> (i = 9)]]

\* C10: sections are added in the fixed order, the disclaimer last and
\* alone marked; storage is called only after all of them, put_object
\* first, generate_presigned_url only after put_object succeeded, both under
\* the name generated for this request; a failed storage call is the last
\* one and ends in a 500; the success payload comes only after both.
C10_FixedOrder ==
    /\ Len(added) <= 9
    /\ added = SubSeq(ExpectedCalls, 1, Len(added))
    /\ cos # <<>> => (added = ExpectedCalls /\ pdf_output /\ object_name \in ObjectNames)
    /\ Len(cos) <= 2
    /\ \A i \in 1..Len(cos) :
          /\ cos[i].op = (IF i = 1 THEN "put_object" ELSE "generate_presigned_url")
          /\ cos[i].key = object_name
          /\ i > 1 => cos[i - 1].ok
          /\ ~cos[i].ok => (pc = "done" /\ response = ServerError)
    /\ response.status = 200 =>
          /\ pc = "done"
          /\ Len(cos) = 2
          /\ cos[2].ok
          /\ response = Success(object_name)
    /\ response.status # 200 => response.file_url = ""

C10_Witness ==
    /\ response.status = 200
    /\ pc = "done"
    /\ pdf.page > 1

====
